---------------------------- MODULE Spec2Model ----------------------------
(***************************************************************************)
(* State-machine model of airflow/api_connexion/endpoints/dag_endpoint.py: *)
(* the five REST handlers get_dag, get_dag_details, get_dags, patch_dag    *)
(* and delete_dag over the DagModel table, the compiled-definition bag and *)
(* the task-instance state of each DAG.                                    *)
(*                                                                         *)
(* Strings that the code inspects character by character (dag_id, the      *)
(* dag_id_pattern of get_dags) are sequences of one-character strings.     *)
(***************************************************************************)
EXTENDS Integers, Sequences, FiniteSets, TLC

VARIABLES
    dag_model,      \* the DagModel table: dag_id -> row, for the ids that have a row
    dag_bag,        \* current_app.dag_bag: the ids that have a compiled definition
    running_tis,    \* the ids whose task instances are still running
    deleted,        \* history: the ids a delete_dag call has removed
    resp            \* the last call: its operation, arguments and response

vars == <<dag_model, dag_bag, running_tis, deleted, resp>>

---------------------------------------------------------------------------
(* Bounds of the model *)

\* largest limit a listing call is made with
MaxLimit == 2

\* largest offset a listing call is made with
MaxOffset == 3

\* longest update_mask a patch call is made with
MaxMask == 2

\* the identifiers of the registry: "Bc", "ab", "c_"
DagIds == { <<"B", "c">>, <<"a", "b">>, <<"c", "_">> }

\* the tag sets a row is created with
RowTags == { {}, {"t1"}, {"t1", "t2"} }

\* the tag sets a listing call asks for ({} stands for an absent or empty tags)
AskedTags == { {}, {"t2"}, {"t1", "t2"} }

\* the dag_id_pattern values a listing call is made with (<<>> stands for
\* an absent or empty pattern)
Patterns == { <<>>, <<"b">>, <<"_">>, <<"C", "%">> }

\* the requesting identities
Principals == { "admin", "viewer" }

\* the field names an update_mask is built from
MaskFields == { "is_paused", "name" }

---------------------------------------------------------------------------
(* Characters and strings *)

\* code point of a character (ASCII)
CharCode(c) ==
    CASE c = "%" -> 37
      [] c = "B" -> 66
      [] c = "C" -> 67
      [] c = "_" -> 95
      [] c = "a" -> 97
      [] c = "b" -> 98
      [] c = "c" -> 99

\* lower-casing of one character, as ILIKE folds case
Lower(c) ==
    CASE c = "B" -> "b"
      [] c = "C" -> "c"
      [] OTHER -> c

\* s < t in the ascending order of ORDER BY dag_id
RECURSIVE StrLess(_, _)
StrLess(s, t) ==
    IF t = <<>> THEN FALSE
    ELSE IF s = <<>> THEN TRUE
    ELSE IF CharCode(Head(s)) # CharCode(Head(t))
         THEN CharCode(Head(s)) < CharCode(Head(t))
         ELSE StrLess(Tail(s), Tail(t))

\* SQL LIKE with case folded: % matches any run of characters, _ any one
RECURSIVE ILikeMatch(_, _)
ILikeMatch(s, p) ==
    IF p = <<>> THEN s = <<>>
    ELSE IF Head(p) = "%"
         THEN ILikeMatch(s, Tail(p))
              \/ (s # <<>> /\ ILikeMatch(Tail(s), p))
    ELSE IF s = <<>> THEN FALSE
    ELSE IF Head(p) = "_" \/ Lower(Head(p)) = Lower(Head(s))
         THEN ILikeMatch(Tail(s), Tail(p))
         ELSE FALSE

\* DagModel.dag_id.ilike(f'%{dag_id_pattern}%')
ilike(dag_id, dag_id_pattern) ==
    ILikeMatch(dag_id, <<"%">> \o dag_id_pattern \o <<"%">>)

---------------------------------------------------------------------------
(* Calls: one request is handled at a time, and its response is handed to  *)
(* the caller before the next request is taken                             *)

NoCall == [ op |-> "none" ]

\* no response is waiting for the caller
Idle == resp = NoCall

\* the caller takes the response
Deliver ==
    /\ ~Idle
    /\ resp' = NoCall
    /\ UNCHANGED <<dag_model, dag_bag, running_tis, deleted>>

---------------------------------------------------------------------------
(* The registry *)

\* a DagModel row (the dag_id is the key of dag_model)
DagRows == [ is_paused : BOOLEAN, is_active : BOOLEAN, is_subdag : BOOLEAN,
             tags : RowTags ]

\* current_app.appbuilder.sm.get_accessible_dag_ids(g.user)
get_accessible_dag_ids(user) ==
    IF user = "admin" THEN DagIds
    ELSE { <<"B", "c">>, <<"c", "_">> }

\* dag_schema.dump(dag): the row with its key
dag_schema_dump(dag_id, dag) ==
    [ dag_id |-> dag_id,
      is_paused |-> dag.is_paused,
      is_active |-> dag.is_active,
      is_subdag |-> dag.is_subdag,
      tags |-> dag.tags ]

\* session.query(DagModel).filter(DagModel.dag_id == dag_id).one_or_none()
\* finds a row
HasRow(dag_id) == dag_id \in DOMAIN dag_model

---------------------------------------------------------------------------
(* get_dags *)

\* the arguments of a listing call; limit has passed check_limit and is a
\* non-negative integer
ListArgs ==
    [ limit : 0..MaxLimit, offset : 0..MaxOffset, tags : AskedTags,
      dag_id_pattern : Patterns, only_active : BOOLEAN, user : Principals ]

\* the arguments of the listing calls made between updates and deletions
PlainListArgs ==
    [ limit : {MaxLimit}, offset : {0}, tags : {{}},
      dag_id_pattern : {<<>>}, only_active : BOOLEAN, user : Principals ]

\* filter(~DagModel.is_subdag, DagModel.is_active) or filter(~DagModel.is_subdag)
BaseQuery(only_active) ==
    IF only_active
    THEN { d \in DOMAIN dag_model :
             ~dag_model[d].is_subdag /\ dag_model[d].is_active }
    ELSE { d \in DOMAIN dag_model : ~dag_model[d].is_subdag }

\* if dag_id_pattern: filter(DagModel.dag_id.ilike(...))
PatternFilter(dags_query, dag_id_pattern) ==
    IF dag_id_pattern # <<>>
    THEN { d \in dags_query : ilike(d, dag_id_pattern) }
    ELSE dags_query

\* ReadableFilter with a fault: the filter on the readable ids is dropped
ReadableFilterDropped(dags_query, readable_dags) == dags_query

\* filter(DagModel.dag_id.in_(readable_dags))
ReadableFilter(dags_query, readable_dags) ==
    { d \in dags_query : d \in readable_dags }

\* TagFilter with a fault: the conditions on the tags are joined with and_
TagFilterAll(dags_query, tags) ==
    IF tags # {}
    THEN { d \in dags_query : \A tag \in tags : tag \in dag_model[d].tags }
    ELSE dags_query

\* if tags: filter(or_(*[DagModel.tags.any(DagTag.name == tag) for tag in tags]))
TagFilter(dags_query, tags) ==
    IF tags # {}
    THEN { d \in dags_query : \E tag \in tags : tag \in dag_model[d].tags }
    ELSE dags_query

\* the query of get_dags before order_by, offset and limit
DagsQuery(a) ==
    TagFilter(
        ReadableFilter(
            PatternFilter(BaseQuery(a.only_active), a.dag_id_pattern),
            get_accessible_dag_ids(a.user)),
        a.tags)

\* order_by(DagModel.dag_id): the ids in ascending order
RECURSIVE OrderBy(_)
OrderBy(S) ==
    IF S = {} THEN <<>>
    ELSE LET m == CHOOSE x \in S : \A y \in S \ {x} : StrLess(x, y)
         IN  <<m>> \o OrderBy(S \ {m})

\* .offset(n): the rows after the first n
Offset(rows, n) == SubSeq(rows, n + 1, Len(rows))

\* .limit(n): the first n rows
Limit(rows, n) == SubSeq(rows, 1, IF n < Len(rows) THEN n ELSE Len(rows))

\* Page with a fault: limit is applied before offset
PageLimitFirst(dags_query, offset, limit) ==
    Offset(Limit(OrderBy(dags_query), limit), offset)

\* dags_query.order_by(DagModel.dag_id).offset(offset).limit(limit).all()
Page(dags_query, offset, limit) ==
    Limit(Offset(OrderBy(dags_query), offset), limit)

\* the response of get_dags
GetDagsResponse(a) ==
    LET dags_query == DagsQuery(a)
        total_entries == Cardinality(dags_query)
        dags == Page(dags_query, a.offset, a.limit)
    IN  [ op |-> "get_dags", args |-> a, status |-> "OK",
          dags |-> [ i \in DOMAIN dags |-> dag_schema_dump(dags[i], dag_model[dags[i]]) ],
          total_entries |-> total_entries ]

\* a call of get_dags with arguments from A
GetDags(A) ==
    \E a \in A :
        /\ Idle
        /\ resp' = GetDagsResponse(a)
        /\ UNCHANGED <<dag_model, dag_bag, running_tis, deleted>>

---------------------------------------------------------------------------
(* Listing calls over every registry *)

\* every registry over DagIds, nothing running, nothing compiled
InitList ==
    /\ \E present \in SUBSET DagIds :
          dag_model \in [ present -> { r \in DagRows : ~r.is_paused } ]
    /\ dag_bag = {}
    /\ running_tis = {}
    /\ deleted = {}
    /\ resp = NoCall

NextList == GetDags(ListArgs) \/ Deliver

SpecList == InitList /\ [][NextList]_vars

---------------------------------------------------------------------------
(* get_dag and get_dag_details *)

\* a call of get_dag
GetDag ==
    \E dag_id \in DagIds :
        /\ Idle
        /\ resp' = IF ~HasRow(dag_id)
                   THEN [ op |-> "get_dag", dag_id |-> dag_id,
                          status |-> "NotFound" ]
                   ELSE [ op |-> "get_dag", dag_id |-> dag_id,
                          status |-> "OK",
                          dag |-> dag_schema_dump(dag_id, dag_model[dag_id]) ]
        /\ UNCHANGED <<dag_model, dag_bag, running_tis, deleted>>

\* HasDefinition with a fault: the DagModel table is consulted instead
HasDefinitionInTable(dag_id) == HasRow(dag_id)

\* current_app.dag_bag.get_dag(dag_id) finds a definition
HasDefinition(dag_id) == dag_id \in dag_bag

\* a call of get_dag_details
GetDagDetails ==
    \E dag_id \in DagIds :
        /\ Idle
        /\ resp' = IF ~HasDefinition(dag_id)
                   THEN [ op |-> "get_dag_details", dag_id |-> dag_id,
                          status |-> "NotFound" ]
                   ELSE [ op |-> "get_dag_details", dag_id |-> dag_id,
                          status |-> "OK", dag |-> [ dag_id |-> dag_id ] ]
        /\ UNCHANGED <<dag_model, dag_bag, running_tis, deleted>>

---------------------------------------------------------------------------
(* patch_dag *)

\* request.json: a JSON object over the fields is_paused and is_active,
\* each absent or holding the literal true, false or a string
Documents ==
    UNION { [ F -> {"true", "false", "junk"} ] :
              F \in SUBSET {"is_paused", "is_active"} }

\* the update_mask values (<<>> stands for an absent or empty mask)
Masks ==
    UNION { [ 1..n -> MaskFields ] : n \in 0..MaxMask }

\* dag_schema.load raises ValidationError
LoadFails(json) == \E f \in DOMAIN json : json[f] \notin {"true", "false"}

\* dag_schema.load(request.json, session=session): the dict of loaded values
dag_schema_load(json) == [ f \in DOMAIN json |-> json[f] = "true" ]

\* MaskRejected with a fault: only the first name of the mask is checked
MaskRejectedFirstOnly(update_mask) == update_mask[1] # "is_paused"

\* the mask is refused: more than one name, or a name other than is_paused
MaskRejected(update_mask) ==
    \/ Len(update_mask) > 1
    \/ update_mask[1] # "is_paused"

\* patch_body_[update_mask] = patch_body[update_mask]; patch_body = patch_body_
MaskedBody(patch_body, field) == [ f \in {field} |-> patch_body[f] ]

\* ApplyPatch with a fault: every loaded field is set on the row
ApplyPatchAllFields(dag, patch_body) ==
    [ f \in DOMAIN dag |->
        IF f \in DOMAIN patch_body THEN patch_body[f] ELSE dag[f] ]

\* setattr(dag, 'is_paused', patch_body['is_paused'])
ApplyPatch(dag, patch_body) ==
    [ dag EXCEPT !.is_paused = patch_body["is_paused"] ]

\* where patch_dag ends, and the dict it applies when it reaches setattr
PatchOutcome(dag_id, json, update_mask) ==
    IF ~HasRow(dag_id) THEN [ status |-> "NotFound" ]
    ELSE IF LoadFails(json) THEN [ status |-> "BadRequest" ]
    ELSE LET patch_body == dag_schema_load(json) IN
         IF update_mask # <<>>
         THEN IF MaskRejected(update_mask) THEN [ status |-> "BadRequest" ]
              ELSE IF update_mask[1] \notin DOMAIN patch_body
                   THEN [ status |-> "KeyError" ]
              ELSE [ status |-> "OK",
                     patch_body |-> MaskedBody(patch_body, update_mask[1]) ]
         ELSE IF "is_paused" \notin DOMAIN patch_body
              THEN [ status |-> "KeyError" ]
              ELSE [ status |-> "OK", patch_body |-> patch_body ]

\* a call of patch_dag
PatchDag ==
    \E dag_id \in DagIds, json \in Documents, update_mask \in Masks :
        LET out == PatchOutcome(dag_id, json, update_mask)
            call == [ op |-> "patch_dag", dag_id |-> dag_id, json |-> json,
                      update_mask |-> update_mask ]
        IN  /\ Idle
            /\ IF out.status = "OK"
               THEN LET dag == ApplyPatch(dag_model[dag_id], out.patch_body)
                    IN  /\ dag_model' = [ dag_model EXCEPT ![dag_id] = dag ]
                        /\ resp' = call @@
                              [ status |-> "OK", committed |-> TRUE,
                                dag |-> dag_schema_dump(dag_id, dag) ]
               ELSE /\ dag_model' = dag_model
                    /\ resp' = call @@
                          [ status |-> out.status, committed |-> FALSE ]
            /\ UNCHANGED <<dag_bag, running_tis, deleted>>

---------------------------------------------------------------------------
(* delete_dag *)

\* what delete_dag_module.delete_dag(dag_id, session=session) does: it
\* raises DagNotFound for a missing row, AirflowException while task
\* instances of the DAG are running or when it fails for another reason,
\* and removes the row otherwise
DeleteRoutine(dag_id, fails) ==
    IF ~HasRow(dag_id) THEN "DagNotFound"
    ELSE IF dag_id \in running_tis THEN "TaskInstancesRunning"
    ELSE IF fails THEN "OtherAirflowException"
    ELSE "Deleted"

\* except DagNotFound: NotFound; except AirflowException: AlreadyExists;
\* return NoContent, 204
DeleteStatus(raised) ==
    IF raised = "DagNotFound" THEN "NotFound"
    ELSE IF raised \in {"TaskInstancesRunning", "OtherAirflowException"}
         THEN "AlreadyExists"
    ELSE "NoContent"

\* a call of delete_dag
DeleteDag ==
    \E dag_id \in DagIds, fails \in BOOLEAN :
        LET raised == DeleteRoutine(dag_id, fails) IN
        /\ Idle
        /\ resp' = [ op |-> "delete_dag", dag_id |-> dag_id,
                     raised |-> raised, status |-> DeleteStatus(raised) ]
        /\ IF raised = "Deleted"
           THEN /\ dag_model' =
                      [ d \in DOMAIN dag_model \ {dag_id} |-> dag_model[d] ]
                /\ deleted' = deleted \cup {dag_id}
           ELSE UNCHANGED <<dag_model, deleted>>
        /\ UNCHANGED <<dag_bag, running_tis>>

---------------------------------------------------------------------------
(* The environment *)

\* the running task instances of a DAG finish
TasksFinish ==
    \E dag_id \in running_tis :
        /\ Idle
        /\ running_tis' = running_tis \ {dag_id}
        /\ UNCHANGED <<dag_model, dag_bag, deleted, resp>>

---------------------------------------------------------------------------
(* The registry under every call *)

\* the row each identifier is registered with
Registered(dag_id) ==
    CASE dag_id = <<"B", "c">> ->
           [ is_active |-> TRUE, is_subdag |-> FALSE, tags |-> {"t1"} ]
      [] dag_id = <<"a", "b">> ->
           [ is_active |-> FALSE, is_subdag |-> FALSE, tags |-> {"t1", "t2"} ]
      [] dag_id = <<"c", "_">> ->
           [ is_active |-> TRUE, is_subdag |-> TRUE, tags |-> {} ]

\* any of the identifiers registered, paused or not; any of them compiled;
\* task instances running for any of the registered ones
Init ==
    /\ \E present \in SUBSET DagIds :
          dag_model \in
              { f \in [ present -> DagRows ] :
                  \A d \in present :
                      /\ f[d].is_active = Registered(d).is_active
                      /\ f[d].is_subdag = Registered(d).is_subdag
                      /\ f[d].tags = Registered(d).tags }
    /\ dag_bag \in SUBSET DagIds
    /\ running_tis \in SUBSET DOMAIN dag_model
    /\ deleted = {}
    /\ resp = NoCall

Next ==
    \/ GetDag
    \/ GetDagDetails
    \/ GetDags(PlainListArgs)
    \/ PatchDag
    \/ DeleteDag
    \/ TasksFinish
    \/ Deliver

Spec == Init /\ [][Next]_vars

---------------------------------------------------------------------------
(* Properties of get_dags, checked under SpecList *)

\* the response in flight is one of get_dags
Listed == resp.op = "get_dags"

\* the identifiers of the page of the response, in order
PageIds == [ i \in DOMAIN resp.dags |-> resp.dags[i].dag_id ]

\* the rows that pass every filter of the call but the one on the tags
PassOtherThanTags ==
    ReadableFilter(
        PatternFilter(BaseQuery(resp.args.only_active),
                      resp.args.dag_id_pattern),
        get_accessible_dag_ids(resp.args.user))

\* p occurs in s as a substring, letter case ignored
IsSubstring(p, s) ==
    \E k \in 0..(Len(s) - Len(p)) :
        \A j \in 1..Len(p) : Lower(s[k + j]) = Lower(p[j])

\* C1: every record of a page returned by get_dags has an identifier in the
\* accessible set of the requesting principal, whatever the other filters
C1_PageIsAccessible ==
    Listed =>
        \A i \in DOMAIN resp.dags :
            resp.dags[i].dag_id \in get_accessible_dag_ids(resp.args.user)

\* C1 witness: a non-empty page was returned while a row outside the
\* accessible set passes every other filter of the call
C1_Witness ==
    /\ Listed
    /\ Len(resp.dags) >= 1
    /\ \E d \in TagFilter(
                    PatternFilter(BaseQuery(resp.args.only_active),
                                  resp.args.dag_id_pattern),
                    resp.args.tags) :
           d \notin get_accessible_dag_ids(resp.args.user)

\* C2: total_entries is the number of rows that are not subdags, are active
\* when only_active, contain dag_id_pattern as a case-insensitive substring
\* of the identifier when a pattern is given, are accessible, and share a
\* tag with the requested tags when tags are given
C2_TotalCountsSubstringMatches ==
    Listed =>
        resp.total_entries =
            Cardinality(
                { d \in DOMAIN dag_model :
                    /\ ~dag_model[d].is_subdag
                    /\ resp.args.only_active => dag_model[d].is_active
                    /\ resp.args.dag_id_pattern # <<>> =>
                           IsSubstring(resp.args.dag_id_pattern, d)
                    /\ d \in get_accessible_dag_ids(resp.args.user)
                    /\ resp.args.tags # {} =>
                           dag_model[d].tags \cap resp.args.tags # {} })

\* C3: the page holds the matching rows at positions offset+1 .. offset+limit
\* of the ascending order of their identifiers (the i-th record of the page
\* has exactly offset+i-1 matching rows before it), it is empty when offset
\* reaches the number of matching rows, and the call never fails
C3_PageIsSortedSlice ==
    Listed =>
        LET matching == DagsQuery(resp.args)
            rest == Cardinality(matching) - resp.args.offset
        IN  /\ resp.status = "OK"
            /\ resp.total_entries = Cardinality(matching)
            /\ Len(resp.dags) =
                   IF rest <= 0 THEN 0
                   ELSE IF rest < resp.args.limit THEN rest
                   ELSE resp.args.limit
            /\ \A i \in DOMAIN resp.dags :
                   /\ PageIds[i] \in matching
                   /\ Cardinality({ m \in matching : StrLess(m, PageIds[i]) })
                          = resp.args.offset + i - 1
                   /\ resp.dags[i] =
                          dag_schema_dump(PageIds[i], dag_model[PageIds[i]])

\* C3 witness: a page from the middle of the matching rows, with matching
\* rows before it and after it
C3_Witness ==
    /\ Listed
    /\ resp.args.offset >= 1
    /\ Len(resp.dags) >= 1
    /\ resp.total_entries > resp.args.offset + Len(resp.dags)

\* C4: with a non-empty tags, a row that passes the other filters is kept
\* exactly when it carries at least one of the requested tags; with no
\* tags, no row is dropped because of its tags
C4_TagsAreOred ==
    Listed =>
        LET kept == IF resp.args.tags = {} THEN PassOtherThanTags
                    ELSE { d \in PassOtherThanTags :
                             dag_model[d].tags \cap resp.args.tags # {} }
        IN  /\ resp.total_entries = Cardinality(kept)
            /\ \A i \in DOMAIN resp.dags : PageIds[i] \in kept
            /\ Len(resp.dags) = Len(Page(kept, resp.args.offset,
                                         resp.args.limit))

\* C4 witness: two tags were asked for and the page holds a row that
\* carries only one of them
C4_Witness ==
    /\ Listed
    /\ Cardinality(resp.args.tags) = 2
    /\ \E i \in DOMAIN resp.dags :
           Cardinality(resp.dags[i].tags \cap resp.args.tags) = 1

---------------------------------------------------------------------------
(* Properties of patch_dag, checked under Spec *)

\* the response in flight is one of patch_dag
Patched == resp.op = "patch_dag"

\* the mask names more than one field, or one field other than is_paused
BadMask(update_mask) ==
    \/ Len(update_mask) > 1
    \/ Len(update_mask) = 1 /\ update_mask[1] # "is_paused"

\* C5: patch_dag on an existing identifier with a valid document and a
\* mask that names more than one field, or one field other than is_paused,
\* fails with BadRequest, leaves the table as it was and commits nothing
C5_BadMaskIsRefused ==
    [][ ( /\ resp'.op = "patch_dag"
          /\ HasRow(resp'.dag_id)
          /\ ~LoadFails(resp'.json)
          /\ BadMask(resp'.update_mask) )
        => ( /\ resp'.status = "BadRequest"
             /\ ~resp'.committed
             /\ dag_model' = dag_model ) ]_vars

\* C5 witness: a mask of two names that begins with is_paused was refused
\* for a document whose is_paused differs from the row's
C5_Witness ==
    /\ Patched
    /\ resp.status = "BadRequest"
    /\ HasRow(resp.dag_id)
    /\ ~LoadFails(resp.json)
    /\ Len(resp.update_mask) = 2
    /\ resp.update_mask[1] = "is_paused"
    /\ "is_paused" \in DOMAIN resp.json
    /\ (resp.json["is_paused"] = "true") # dag_model[resp.dag_id].is_paused

\* C6: a successful patch_dag has no mask or the mask <<is_paused>>, sets
\* is_paused of the row to the document's is_paused, and changes no other
\* field of the row, no other row and no identifier
C6_OnlyIsPausedChanges ==
    [][ ( resp'.op = "patch_dag" /\ resp'.status = "OK" )
        => ( /\ resp'.update_mask \in { <<>>, <<"is_paused">> }
             /\ DOMAIN dag_model' = DOMAIN dag_model
             /\ \A d \in DOMAIN dag_model :
                    /\ dag_model'[d].is_active = dag_model[d].is_active
                    /\ dag_model'[d].is_subdag = dag_model[d].is_subdag
                    /\ dag_model'[d].tags = dag_model[d].tags
                    /\ dag_model'[d].is_paused =
                           IF d = resp'.dag_id
                           THEN resp'.json["is_paused"] = "true"
                           ELSE dag_model[d].is_paused
             /\ resp'.dag = dag_schema_dump(resp'.dag_id,
                                            dag_model'[resp'.dag_id])
             /\ UNCHANGED <<dag_bag, running_tis, deleted>> ) ]_vars

\* C6 witness: a patch without a mask succeeded with a document that sets
\* is_paused and also carries an is_active different from the row's
C6_Witness ==
    /\ Patched
    /\ resp.status = "OK"
    /\ resp.update_mask = <<>>
    /\ "is_active" \in DOMAIN resp.json
    /\ (resp.json["is_active"] = "true") # dag_model[resp.dag_id].is_active
    /\ resp.dag.is_paused
    /\ dag_model[resp.dag_id].is_paused

\* C9: patch_dag ends in the updated record, NotFound or BadRequest
C9_PatchOutcomeIsClassified ==
    Patched => resp.status \in { "OK", "NotFound", "BadRequest" }

---------------------------------------------------------------------------
(* Properties of the lookups and of delete_dag, checked under Spec *)

\* C8: get_dag fails with NotFound exactly when the identifier has no row
\* in the table, and get_dag_details exactly when it has no definition in
\* the bag; neither consults the other source
C8_EachLookupHasItsSource ==
    /\ resp.op = "get_dag" =>
           /\ resp.status \in { "OK", "NotFound" }
           /\ resp.status = "NotFound" <=> resp.dag_id \notin DOMAIN dag_model
    /\ resp.op = "get_dag_details" =>
           /\ resp.status \in { "OK", "NotFound" }
           /\ resp.status = "NotFound" <=> resp.dag_id \notin dag_bag

\* C8 witness: get_dag_details failed with NotFound for an identifier that
\* has a row in the table
C8_Witness ==
    /\ resp.op = "get_dag_details"
    /\ resp.status = "NotFound"
    /\ resp.dag_id \in DOMAIN dag_model

\* the response in flight reports the identifier d as present
ReportsPresent(d) ==
    \/ /\ resp.op \in { "get_dag", "get_dag_details", "patch_dag",
                        "delete_dag" }
       /\ resp.dag_id = d
       /\ resp.status # "NotFound"
       /\ ~(resp.op = "delete_dag" /\ resp.status = "NoContent")
    \/ /\ resp.op = "get_dags"
       /\ \E i \in DOMAIN resp.dags : resp.dags[i].dag_id = d

\* C7: delete_dag while task instances of the DAG are running fails with
\* Conflict and the row stays; delete_dag on an existing DAG with nothing
\* running succeeds with an empty payload unless the routine fails for
\* another reason; and once an identifier is deleted it has no row and
\* every lookup (get_dag, get_dag_details, patch_dag, get_dags, another
\* delete_dag) reports it absent
C7_DeletedIsAbsentFromEveryLookup ==
    /\ resp.op = "delete_dag" =>
           /\ resp.dag_id \in running_tis =>
                  resp.status = "AlreadyExists" /\ HasRow(resp.dag_id)
           /\ resp.raised = "Deleted" =>
                  /\ resp.status = "NoContent"
                  /\ resp.dag_id \in deleted
                  /\ DOMAIN resp = { "op", "dag_id", "raised", "status" }
    /\ \A d \in deleted :
           /\ ~HasRow(d)
           /\ ~ReportsPresent(d)

\* C10: delete_dag fails with Conflict only when task instances of that DAG
\* are still running, and with NotFound only when the row is missing
C10_ConflictOnlyWhenRunning ==
    resp.op = "delete_dag" =>
        /\ resp.status = "AlreadyExists" => resp.dag_id \in running_tis
        /\ resp.status = "NotFound" => ~HasRow(resp.dag_id)

===========================================================================
